---- MODULE Spec2Model ----
(***************************************************************************)
(* Lifecycle of the data-sync server (src/server/server.js): the startup   *)
(* function exported by the module, buildSchema, connectDataSources,       *)
(* disconnectDataSources, the hot reload callback onReceive and its        *)
(* debounce.                                                               *)
(*                                                                         *)
(* One action is one run of JavaScript between two suspension points: from *)
(* the completion of an awaited external call (a store query, a connect, a *)
(* disconnect, a timer) to the next await.                                 *)
(***************************************************************************)
EXTENDS Integers, Sequences, FiniteSets, TLC

\* ------------------------------------------------------------------ bounds
\* hot reload executions (onReceive calls) of a behaviour of Spec; a behaviour
\* of SpecOverlap holds one more
MaxReloads == 1
\* largest amount of time (ms) one step of the clock lets pass
TimeStep == 250

\* --------------------------------------------------------- program constants
\* _.debounce(onReceive, 500)
Wait == 500

\* the execution of the exported startup function is 0, the executions of
\* onReceive are numbered from 1 in the order in which they start
Startup == 0
Reloads == 1..(MaxReloads + 1)
Execs == { Startup } \cup Reloads

\* ------------------------------------------------------------ configuration
\* JavaScript null / undefined of a string variable
Null == "<null>"
\* the built-in schema text of lines 191-206
FallbackSchemaString == "<fallback>"
\* a schema text the parser rejects
BadText == "type {"
\* a schema text the parser accepts
GoodText == "type Query { a: A }"

Row(n, s) == [name |-> n, schema |-> s]

\* the GraphQLSchema tables the store may hold
SchemaTables ==
    { <<>>,
      << Row("default", GoodText) >>,
      << Row("default", "") >>,
      << Row("default", BadText) >>,
      << Row("other", GoodText) >>,
      << Row("other", GoodText), Row("default", GoodText) >>,
      << Row("other", GoodText), Row("default", "") >>,
      << Row("default", GoodText), Row("default", BadText) >> }

\* the DataSource tables the store may hold (rows are named by their key)
DataSourceTables == { <<>>, << "A" >>, << "A", "B" >> }

\* the Resolver tables the store may hold
ResolverTables == { <<>>, << "r" >> }

\* the Subscription tables the store may hold
SubscriptionTables == { <<>> }

AllStores ==
    [ schemas : SchemaTables, dataSources : DataSourceTables,
      resolvers : ResolverTables, subscriptions : SubscriptionTables ]

Store(s, d, r) ==
    [ schemas |-> s, dataSources |-> d, resolvers |-> r, subscriptions |-> <<>> ]

\* the stores of the lifecycle specification: a complete configuration, one the
\* parser rejects, one without a 'default' schema and without rows
Stores ==
    { Store(<< Row("default", GoodText) >>, << "A", "B" >>, << "r" >>),
      Store(<< Row("default", BadText) >>, << "A" >>, << "r" >>),
      Store(<< Row("other", GoodText) >>, <<>>, <<>>) }

\* -------------------------------------------------------------- buildSchema
\* lines 162-167: the schema of the first row named 'default', null when there is none
RECURSIVE FindDefault(_)
FindDefault(rows) ==
    IF rows = <<>> THEN Null
    ELSE IF Head(rows).name = "default" THEN Head(rows).schema
    ELSE FindDefault(Tail(rows))

\* JavaScript truthiness of a string or null: !graphQLSchemaString (line 168)
Falsy(s) == s = Null \/ s = ""

\* _.isEmpty of a string or null
IsEmptyString(s) == s = Null \/ s = ""

\* _.isEmpty of an array or an object
IsEmpty(x) == x = <<>>

\* line 161, 168: rows exist and no schema string was selected
NoDefaultFound(rows) == rows # <<>> /\ Falsy(FindDefault(rows))

\* mutant: the noop defaults are used only when all three are empty
UseDefaultsAll(str, dsJson, resJson) ==
    IsEmptyString(str) /\ IsEmpty(dsJson) /\ IsEmpty(resJson)

\* line 185: the condition under which the noop defaults are used
UseDefaults(str, dsJson, resJson) ==
    IsEmptyString(str) \/ IsEmpty(dsJson) \/ IsEmpty(resJson)

\* lines 185-210: the arguments handed to schemaParser
ParserArgs(str, dsJson, resJson, subsJson) ==
    IF UseDefaults(str, dsJson, resJson)
    THEN [ schema |-> FallbackSchemaString, dataSources |-> <<>>,
           resolvers |-> <<>>, subscriptions |-> subsJson ]
    ELSE [ schema |-> str, dataSources |-> dsJson,
           resolvers |-> resJson, subscriptions |-> subsJson ]

\* schemaParser: fails on a text it cannot compile
ParserThrows(args) == args.schema = BadText

\* schemaParser: the compiled schema and fresh data source instances, one per
\* data source row, of build g
Compile(g, args) ==
    [ schema |-> [ gen |-> g, text |-> args.schema, resolvers |-> args.resolvers,
                   subscriptions |-> args.subscriptions ],
      dataSources |-> [ gen |-> g, keys |-> args.dataSources ] ]

\* undefined values of the closure variables
NoSchema == [ gen |-> -1, text |-> Null, resolvers |-> <<>>, subscriptions |-> <<>> ]
NoDataSources == [ gen |-> -1, keys |-> <<>> ]
Undefined == [ schema |-> NoSchema, dataSources |-> NoDataSources ]

\* the data source instance of key k in the map ds
Instance(ds, i) == << ds.gen, ds.keys[i] >>
Instances(ds) == { Instance(ds, i) : i \in 1..Len(ds.keys) }

\* ------------------------------------------------------------------- state
VARIABLES
    store,               \* the rows of the config store (models)
    listenerConfigured,  \* whether schemaListenerCreator returns a listener
    pc,                  \* pc[e]: the await at which execution e is suspended
    loc,                 \* loc[e]: the local variables of execution e
    result,              \* the promise returned by the startup function
    schema,              \* closure variable schema
    dataSources,         \* closure variable dataSources
    app,                 \* closure variable app
    apolloServer,        \* closure variable apolloServer
    subscriptionServers, \* apollo servers whose subscription server is open
    httpServer,          \* the http server: created, its 'request' listeners
    connected,           \* the data source instances that are connected
    schemaListener,      \* "none", "started"
    timerId,             \* debounce: a timer is pending
    timerLeft,           \* debounce: time until the pending timer expires
    sinceCall,           \* debounce: time since the last call (capped at Wait)
    signalled,           \* history: the listener has signalled a change
    invoked,             \* history: onReceive invocations since the last signal
    cl,                  \* the execution of cleanup: its await, its loop, its calls
    closed               \* what has been closed: "store", "server"

vars == << store, listenerConfigured, pc, loc, result, schema, dataSources, app,
           apolloServer, subscriptionServers, httpServer, connected, schemaListener,
           timerId, timerLeft, sinceCall, signalled, invoked, cl, closed >>

shutdownVars == << cl, closed >>
envVars == << store, listenerConfigured >>
timerVars == << timerId, timerLeft, sinceCall, signalled, invoked >>
liveVars == << schema, dataSources, app, apolloServer, subscriptionServers, httpServer >>

\* graphQLConfig.graphqlEndpoint, and the path apollo uses when none is given
GraphqlEndpoint == "/api/graphql"
DefaultPath == "/graphql"

NoApp == [ id |-> -1, routes |-> {} ]
NoApollo == [ id |-> -1, schema |-> NoSchema, path |-> Null ]

\* cleanup before it is called: calls lists the shutdown steps it has invoked,
\* inFlight the onReceive executions that were running when it was called
NoCleanup ==
    [ pc |-> "idle", loop |-> NoDataSources, i |-> 0, calls |-> <<>>, inFlight |-> {} ]

\* the local variables of an execution that has not run yet
NoLocals ==
    [ graphQLSchemaString |-> Null, dataSourcesJson |-> <<>>,
      subscriptionsJson |-> <<>>, newSchema |-> Undefined, loop |-> NoDataSources,
      i |-> 0, error |-> "none",
      preSchema |-> NoSchema, preDataSources |-> NoDataSources, preConnected |-> {} ]

InitIn(S) ==
    /\ store \in S
    /\ listenerConfigured \in BOOLEAN
    /\ pc = [ e \in Execs |-> IF e = Startup THEN "fetchSchemas" ELSE "idle" ]
    /\ loc = [ e \in Execs |-> NoLocals ]
    /\ result = "pending"
    /\ schema = NoSchema
    /\ dataSources = NoDataSources
    /\ app = NoApp
    /\ apolloServer = NoApollo
    /\ subscriptionServers = {}
    /\ httpServer = [ created |-> FALSE, listeners |-> {} ]
    /\ connected = {}
    /\ schemaListener = "none"
    /\ timerId = FALSE
    /\ timerLeft = 0
    /\ sinceCall = Wait
    /\ signalled = FALSE
    /\ invoked = 0
    /\ cl = NoCleanup
    /\ closed = {}

Init == InitIn(Stores)

\* ---------------------------------------------------------------- helpers
\* execution e is suspended at await p with locals l
Goto(e, p, l) ==
    /\ pc' = [ pc EXCEPT ![e] = p ]
    /\ loc' = [ loc EXCEPT ![e] = l ]

\* the locals that are dead once buildSchema has returned or thrown
BuildDone(l) ==
    [ l EXCEPT !.graphQLSchemaString = Null, !.dataSourcesJson = <<>>,
               !.subscriptionsJson = <<>> ]

\* an execution that has ended keeps the error it met, if any
Ended(l) == [ NoLocals EXCEPT !.error = l.error ]

\* ------------------------------------------------- module.exports (startup)
\* lines 59-154, run once connectDataSources has returned: the server, the app
\* with its routes, the apollo server, the schema listener, the returned handle
StartupFinish(l) ==
    /\ Goto(Startup, "returned", Ended(l))
    /\ httpServer' = [ created |-> TRUE, listeners |-> { Startup } ]
    /\ app' = [ id |-> Startup, routes |-> { GraphqlEndpoint, "/healthz", "/metrics" } ]
    /\ apolloServer' = [ id |-> Startup, schema |-> l.newSchema.schema,
                         path |-> GraphqlEndpoint ]
    /\ subscriptionServers' = { Startup }
    /\ schemaListener' = IF listenerConfigured THEN "started" ELSE "none"
    /\ result' = "resolved"

\* mutant: the startup swallows the error, as onReceive does, and goes on
StartupContinue(l) ==
    /\ StartupFinish(l)
    /\ UNCHANGED << schema, dataSources >>

\* lines 56, 57: an error of buildSchema or connectDataSources rejects the promise
StartupReject(l) ==
    /\ Goto(Startup, "rejected", Ended(l))
    /\ result' = "rejected"
    /\ UNCHANGED << schema, dataSources, app, apolloServer, subscriptionServers,
                    httpServer, schemaListener >>

\* line 56 (assignment) and line 57 up to its first await
StartupBuilt(l) ==
    /\ schema' = l.newSchema.schema
    /\ dataSources' = l.newSchema.dataSources
    /\ IF l.newSchema.dataSources.keys = <<>>
       THEN StartupFinish(l)
       ELSE /\ Goto(Startup, "connecting",
                    [ l EXCEPT !.loop = l.newSchema.dataSources, !.i = 1 ])
            /\ UNCHANGED << app, apolloServer, subscriptionServers, httpServer,
                            schemaListener, result >>

\* ------------------------------------------------------ onReceive (reload)
\* mutant: the clean-up of lines 99-100 runs before newSchema is tested
ReloadBuildCatchCleanup(e, l) ==
    /\ Goto(e, "done", Ended(l))
    /\ subscriptionServers' = subscriptionServers \ { apolloServer.id }
    /\ httpServer' = [ httpServer EXCEPT !.listeners = @ \ { app.id } ]
    /\ UNCHANGED << schema, dataSources, app, apolloServer, schemaListener, result >>

\* lines 91-97: the catch of a buildSchema error; newSchema stays undefined
ReloadBuildCatch(e, l) ==
    /\ Goto(e, "done", Ended(l))
    /\ UNCHANGED << liveVars, schemaListener, result >>

\* line 116 up to its first await, line 117 when there is nothing to connect
ReloadConnectNew(e, l) ==
    IF l.newSchema.dataSources.keys = <<>>
    THEN /\ dataSources' = l.newSchema.dataSources
         /\ Goto(e, "done", Ended(l))
    ELSE /\ dataSources' = dataSources
         /\ Goto(e, "connecting", [ l EXCEPT !.loop = l.newSchema.dataSources, !.i = 1 ])

\* mutant: the reload binds the new app without removing the previous one
ReloadInstallKeepListener(e, l) ==
    /\ subscriptionServers' = (subscriptionServers \ { apolloServer.id }) \cup { e }
    /\ httpServer' = [ httpServer EXCEPT !.listeners = @ \cup { e } ]
    /\ schema' = l.newSchema.schema
    /\ app' = [ id |-> e, routes |-> { DefaultPath } ]
    /\ apolloServer' = [ id |-> e, schema |-> l.newSchema.schema, path |-> DefaultPath ]

\* mutant: the apollo server is created (line 104) before schema is assigned
\* (line 102), so it is given the previous schema
ReloadInstallOldSchema(e, l) ==
    /\ subscriptionServers' = (subscriptionServers \ { apolloServer.id }) \cup { e }
    /\ httpServer' = [ httpServer EXCEPT !.listeners = (@ \ { app.id }) \cup { e } ]
    /\ schema' = l.newSchema.schema
    /\ app' = [ id |-> e, routes |-> { DefaultPath } ]
    /\ apolloServer' = [ id |-> e, schema |-> schema, path |-> DefaultPath ]

\* lines 99-105: close the subscription server, swap the app, the schema and the
\* apollo server
ReloadInstall(e, l) ==
    /\ subscriptionServers' = (subscriptionServers \ { apolloServer.id }) \cup { e }
    /\ httpServer' = [ httpServer EXCEPT !.listeners = (@ \ { app.id }) \cup { e } ]
    /\ schema' = l.newSchema.schema
    /\ app' = [ id |-> e, routes |-> { DefaultPath } ]
    /\ apolloServer' = [ id |-> e, schema |-> l.newSchema.schema, path |-> DefaultPath ]

\* lines 97-108 up to the first await of disconnectDataSources(dataSources)
ReloadBuilt(e, l) ==
    /\ ReloadInstall(e, l)
    /\ IF dataSources.keys = <<>>
       THEN ReloadConnectNew(e, l)
       ELSE /\ Goto(e, "disconnecting", [ l EXCEPT !.loop = dataSources, !.i = 1 ])
            /\ dataSources' = dataSources
    /\ UNCHANGED << schemaListener, result >>

\* -------------------------------------------------------------- buildSchema
\* buildSchema throws err
BuildThrow(e, l, err) ==
    IF e = Startup
    THEN StartupReject([ l EXCEPT !.error = err ])
    ELSE ReloadBuildCatch(e, [ l EXCEPT !.error = err ])

\* buildSchema returns what the parser compiled
BuildReturn(e, l, compiled) ==
    IF e = Startup
    THEN StartupBuilt([ BuildDone(l) EXCEPT !.newSchema = compiled ])
    ELSE ReloadBuilt(e, [ BuildDone(l) EXCEPT !.newSchema = compiled ])

\* line 158 returns; lines 159-175 up to the await of DataSource.findAll
FetchSchemas(e) ==
    /\ pc[e] = "fetchSchemas"
    /\ "store" \notin closed
    /\ LET rows == store.schemas
           l == loc[e]
       IN IF NoDefaultFound(rows)
          THEN BuildThrow(e, l, "NoDefault")
          ELSE /\ Goto(e, "fetchDataSources",
                       [ l EXCEPT !.graphQLSchemaString = FindDefault(rows) ])
               /\ UNCHANGED << liveVars, schemaListener, result >>
    /\ UNCHANGED << envVars, shutdownVars, timerVars, connected >>

\* line 175 returns; line 176 up to its await
FetchDataSources(e) ==
    /\ pc[e] = "fetchDataSources"
    /\ "store" \notin closed
    /\ Goto(e, "fetchSubscriptions", [ loc[e] EXCEPT !.dataSourcesJson = store.dataSources ])
    /\ UNCHANGED << envVars, shutdownVars, timerVars, connected, liveVars, schemaListener, result >>

\* line 176 returns; line 178 up to its await
FetchSubscriptions(e) ==
    /\ pc[e] = "fetchSubscriptions"
    /\ "store" \notin closed
    /\ Goto(e, "fetchResolvers", [ loc[e] EXCEPT !.subscriptionsJson = store.subscriptions ])
    /\ UNCHANGED << envVars, shutdownVars, timerVars, connected, liveVars, schemaListener, result >>

\* line 178 returns; lines 181-218 and the caller up to its next await
FetchResolvers(e) ==
    /\ pc[e] = "fetchResolvers"
    /\ "store" \notin closed
    /\ LET l == loc[e]
           args == ParserArgs(l.graphQLSchemaString, l.dataSourcesJson,
                              store.resolvers, l.subscriptionsJson)
       IN IF ParserThrows(args)
          THEN BuildThrow(e, l, "Parse")
          ELSE BuildReturn(e, l, Compile(e, args))
    /\ UNCHANGED << envVars, shutdownVars, timerVars, connected >>

\* one of the store queries of buildSchema fails
FetchFail(e) ==
    /\ pc[e] \in { "fetchSchemas", "fetchDataSources", "fetchSubscriptions", "fetchResolvers" }
    /\ BuildThrow(e, loc[e], "Store")
    /\ UNCHANGED << envVars, shutdownVars, timerVars, connected >>

\* ------------------------------------------- connect / disconnect loops
LoopInstance(e) == Instance(loc[e].loop, loc[e].i)
LastKey(e) == loc[e].i = Len(loc[e].loop.keys)
NextKey(e) == [ loc[e] EXCEPT !.i = @ + 1 ]

\* lines 118-123: the catch of a connect error of the new data sources, up to
\* the first await of connectDataSources(dataSources)
ReloadConnectCatch(e, l) ==
    IF dataSources.keys = <<>>
    THEN Goto(e, "done", Ended(l))
    ELSE Goto(e, "reconnecting", [ l EXCEPT !.loop = dataSources, !.i = 1 ])

\* line 226 returns in connectDataSources(newSchema.dataSources) or, at startup,
\* in connectDataSources(dataSources)
ConnectOk(e) ==
    /\ pc[e] = "connecting"
    /\ connected' = connected \cup { LoopInstance(e) }
    /\ IF ~LastKey(e)
       THEN /\ Goto(e, "connecting", NextKey(e))
            /\ UNCHANGED << liveVars, schemaListener, result >>
       ELSE IF e = Startup
       THEN /\ StartupFinish(loc[e])
            /\ UNCHANGED << schema, dataSources >>
       ELSE /\ dataSources' = loc[e].newSchema.dataSources
            /\ Goto(e, "done", Ended(loc[e]))
            /\ UNCHANGED << schema, app, apolloServer, subscriptionServers, httpServer,
                            schemaListener, result >>
    /\ UNCHANGED << envVars, shutdownVars, timerVars >>

\* mutant: a failing connect is logged and the loop goes on to the next key
ConnectFailContinue(e) ==
    /\ pc[e] = "connecting"
    /\ connected' = connected
    /\ IF ~LastKey(e)
       THEN /\ Goto(e, "connecting", NextKey(e))
            /\ UNCHANGED << liveVars, schemaListener, result >>
       ELSE IF e = Startup
       THEN /\ StartupFinish(loc[e])
            /\ UNCHANGED << schema, dataSources >>
       ELSE /\ dataSources' = loc[e].newSchema.dataSources
            /\ Goto(e, "done", Ended(loc[e]))
            /\ UNCHANGED << schema, app, apolloServer, subscriptionServers, httpServer,
                            schemaListener, result >>
    /\ UNCHANGED << envVars, shutdownVars, timerVars >>

\* line 226 throws: lines 227-230, and the caller's handling of the error
ConnectFail(e) ==
    /\ pc[e] = "connecting"
    /\ LET l == [ loc[e] EXCEPT !.error = "Connect" ]
       IN IF e = Startup
          THEN StartupReject(l)
          ELSE /\ ReloadConnectCatch(e, l)
               /\ UNCHANGED << liveVars, schemaListener, result >>
    /\ UNCHANGED << envVars, shutdownVars, timerVars, connected >>

\* line 226 returns in connectDataSources(dataSources) of line 123
ReconnectOk(e) ==
    /\ pc[e] = "reconnecting"
    /\ connected' = connected \cup { LoopInstance(e) }
    /\ IF LastKey(e)
       THEN Goto(e, "done", Ended(loc[e]))
       ELSE Goto(e, "reconnecting", NextKey(e))
    /\ UNCHANGED << envVars, shutdownVars, timerVars, liveVars, schemaListener, result >>

\* mutant: the error of the second connectDataSources is not caught and
\* rejects the promise of onReceive
ReconnectFailRaise(e) ==
    /\ pc[e] = "reconnecting"
    /\ Goto(e, "raised", Ended(loc[e]))
    /\ UNCHANGED << envVars, shutdownVars, timerVars, liveVars, schemaListener, result, connected >>

\* line 226 throws in connectDataSources(dataSources) of line 123: lines 124-127
ReconnectFail(e) ==
    /\ pc[e] = "reconnecting"
    /\ Goto(e, "done", Ended(loc[e]))
    /\ UNCHANGED << envVars, shutdownVars, timerVars, liveVars, schemaListener, result, connected >>

\* the loop of disconnectDataSources moves on: the next key, or back in
\* onReceive at line 115
DisconnectNext(e) ==
    IF LastKey(e)
    THEN ReloadConnectNew(e, loc[e])
    ELSE /\ Goto(e, "disconnecting", NextKey(e))
         /\ dataSources' = dataSources

\* line 240 returns
DisconnectOk(e) ==
    /\ pc[e] = "disconnecting"
    /\ connected' = connected \ { LoopInstance(e) }
    /\ DisconnectNext(e)
    /\ UNCHANGED << envVars, shutdownVars, timerVars, schema, app, apolloServer, subscriptionServers,
                    httpServer, schemaListener, result >>

\* mutant: the error of a failing disconnect leaves the loop, and the catch of
\* line 109 takes it
DisconnectFailAbort(e) ==
    /\ pc[e] = "disconnecting"
    /\ connected' = connected
    /\ ReloadConnectNew(e, loc[e])
    /\ UNCHANGED << envVars, shutdownVars, timerVars, schema, app, apolloServer, subscriptionServers,
                    httpServer, schemaListener, result >>

\* line 240 throws: lines 241-245 swallow the error
DisconnectFail(e) ==
    /\ pc[e] = "disconnecting"
    /\ connected' = connected
    /\ DisconnectNext(e)
    /\ UNCHANGED << envVars, shutdownVars, timerVars, schema, app, apolloServer, subscriptionServers,
                    httpServer, schemaListener, result >>

\* ------------------------------------------------- debounce (lodash, line 131)
Min(a, b) == IF a < b THEN a ELSE b

\* the number of the next onReceive execution
NextExec == Cardinality({ e \in Reloads : pc[e] # "idle" }) + 1

\* the listener calls debouncedOnReceive: the call time is recorded and a timer
\* of Wait ms is started unless one is pending
Signal ==
    /\ schemaListener = "started"
    /\ sinceCall' = 0
    /\ timerId' = TRUE
    /\ timerLeft' = IF timerId THEN timerLeft ELSE Wait
    /\ signalled' = TRUE
    /\ invoked' = 0
    /\ UNCHANGED << envVars, shutdownVars, pc, loc, liveVars, schemaListener, result, connected >>

\* lines 86-90 and buildSchema up to its first await: onReceive starts
OnReceiveStart(e) ==
    /\ Goto(e, "fetchSchemas",
            [ loc[e] EXCEPT !.preSchema = schema, !.preDataSources = dataSources,
                            !.preConnected = connected ])

\* mutant: the timer callback invokes onReceive without looking at the time of
\* the last call
TimerExpiredAlways(limit) ==
    /\ timerId
    /\ timerLeft = 0
    /\ NextExec <= limit
    /\ timerId' = FALSE
    /\ timerLeft' = 0
    /\ sinceCall' = Wait
    /\ invoked' = invoked + 1
    /\ OnReceiveStart(NextExec)
    /\ UNCHANGED << envVars, shutdownVars, signalled, liveVars, schemaListener, result, connected >>

\* the debounce timer expires: the trailing edge when Wait ms have passed since
\* the last call, otherwise the timer is restarted for what remains; a behaviour
\* holds at most limit executions of onReceive
TimerExpiredIn(limit) ==
    /\ timerId
    /\ timerLeft = 0
    /\ IF sinceCall >= Wait
       THEN /\ NextExec <= limit
            /\ timerId' = FALSE
            /\ timerLeft' = 0
            /\ sinceCall' = Wait
            /\ invoked' = invoked + 1
            /\ OnReceiveStart(NextExec)
       ELSE /\ timerId' = TRUE
            /\ timerLeft' = Wait - sinceCall
            /\ UNCHANGED << sinceCall, invoked, pc, loc >>
    /\ UNCHANGED << envVars, shutdownVars, signalled, liveVars, schemaListener, result, connected >>

\* time passes, at most until the pending timer is due
Tick ==
    /\ timerId
    /\ timerLeft > 0
    /\ LET d == Min(TimeStep, timerLeft)
       IN /\ timerLeft' = timerLeft - d
          /\ sinceCall' = Min(Wait, sinceCall + d)
    /\ UNCHANGED << envVars, shutdownVars, timerId, signalled, invoked, pc, loc, liveVars,
                    schemaListener, result, connected >>

\* ---------------------------------------------------- cleanup (lines 135-140)
\* what no step of cleanup changes
cleanupFrame == << envVars, timerVars, pc, loc, liveVars, result >>

\* the onReceive executions that have started and not finished
Running == { e \in Reloads : pc[e] \notin { "idle", "done" } }

\* line 139 calls server.close()
CleanupCloseServer(c) ==
    cl' = [ c EXCEPT !.pc = "closeServer", !.calls = Append(@, "server") ]

\* line 138 calls disconnectDataSources(dataSources): up to its first await or,
\* over no key at all, through to line 139
CleanupDisconnect(c) ==
    LET d == [ c EXCEPT !.calls = Append(@, "dataSources") ]
    IN IF dataSources.keys = <<>>
       THEN CleanupCloseServer(d)
       ELSE cl' = [ d EXCEPT !.pc = "disconnecting", !.loop = dataSources, !.i = 1 ]

\* line 137 calls schemaListener.stop(), when there is a listener
CleanupStopListener(c) ==
    IF schemaListener # "none"
    THEN cl' = [ c EXCEPT !.pc = "stopListener", !.calls = Append(@, "listener") ]
    ELSE CleanupDisconnect(c)

\* an awaited call of cleanup throws: no line of cleanup catches it
CleanupReject == cl' = [ cl EXCEPT !.pc = "rejected" ]

\* the handle's cleanup is called: line 136 calls models.sequelize.close()
Cleanup ==
    /\ result = "resolved"
    /\ cl.pc = "idle"
    /\ cl' = [ cl EXCEPT !.pc = "closeStore", !.calls = << "store" >>,
                         !.inFlight = Running ]
    /\ UNCHANGED << cleanupFrame, closed, schemaListener, connected >>

\* line 136 returns
CloseStoreOk ==
    /\ cl.pc = "closeStore"
    /\ closed' = closed \cup { "store" }
    /\ CleanupStopListener(cl)
    /\ UNCHANGED << cleanupFrame, schemaListener, connected >>

\* line 136 throws
CloseStoreFail ==
    /\ cl.pc = "closeStore"
    /\ CleanupReject
    /\ UNCHANGED << cleanupFrame, closed, schemaListener, connected >>

\* line 137 returns
StopListenerOk ==
    /\ cl.pc = "stopListener"
    /\ schemaListener' = "stopped"
    /\ CleanupDisconnect(cl)
    /\ UNCHANGED << cleanupFrame, closed, connected >>

\* line 137 throws
StopListenerFail ==
    /\ cl.pc = "stopListener"
    /\ CleanupReject
    /\ UNCHANGED << cleanupFrame, closed, schemaListener, connected >>

\* the loop of disconnectDataSources(dataSources) of line 138 moves on: the
\* next key, or back in cleanup at line 139
CleanupDisconnectNext ==
    IF cl.i = Len(cl.loop.keys)
    THEN CleanupCloseServer([ cl EXCEPT !.loop = NoDataSources, !.i = 0 ])
    ELSE cl' = [ cl EXCEPT !.i = @ + 1 ]

\* line 240 returns in the disconnectDataSources of line 138
CleanupDisconnectOk ==
    /\ cl.pc = "disconnecting"
    /\ connected' = connected \ { Instance(cl.loop, cl.i) }
    /\ CleanupDisconnectNext
    /\ UNCHANGED << cleanupFrame, closed, schemaListener >>

\* line 240 throws in the disconnectDataSources of line 138: lines 241-245
CleanupDisconnectFail ==
    /\ cl.pc = "disconnecting"
    /\ connected' = connected
    /\ CleanupDisconnectNext
    /\ UNCHANGED << cleanupFrame, closed, schemaListener >>

\* line 139 returns: the server stops listening and cleanup resolves
CloseServerOk ==
    /\ cl.pc = "closeServer"
    /\ closed' = closed \cup { "server" }
    /\ cl' = [ cl EXCEPT !.pc = "resolved" ]
    /\ UNCHANGED << cleanupFrame, schemaListener, connected >>

\* line 139 throws
CloseServerFail ==
    /\ cl.pc = "closeServer"
    /\ CleanupReject
    /\ UNCHANGED << cleanupFrame, closed, schemaListener, connected >>

\* ------------------------------------------------------------- environment
\* the rows of the config store are edited
StoreChangeIn(S) ==
    /\ \E s \in S : s # store /\ store' = s
    /\ UNCHANGED << listenerConfigured, shutdownVars, timerVars, pc, loc, liveVars,
                    schemaListener, result, connected >>

StoreChange == StoreChangeIn(Stores)

\* every step but the expiry of the debounce timer
Step ==
    \/ \E e \in Execs : FetchSchemas(e)
    \/ \E e \in Execs : FetchDataSources(e)
    \/ \E e \in Execs : FetchSubscriptions(e)
    \/ \E e \in Execs : FetchResolvers(e)
    \/ \E e \in Execs : FetchFail(e)
    \/ \E e \in Execs : ConnectOk(e)
    \/ \E e \in Execs : ConnectFail(e)
    \/ \E e \in Reloads : ReconnectOk(e)
    \/ \E e \in Reloads : ReconnectFail(e)
    \/ \E e \in Reloads : DisconnectOk(e)
    \/ \E e \in Reloads : DisconnectFail(e)
    \/ Signal
    \/ Tick
    \/ StoreChange

TimerExpired == TimerExpiredIn(MaxReloads)

Next == Step \/ TimerExpired

Spec == Init /\ [][Next]_vars

\* ------------------------------------------------------ overlapping reloads
TimerExpiredOverlap == TimerExpiredIn(MaxReloads + 1)

NextOverlap == Step \/ TimerExpiredOverlap

SpecOverlap == Init /\ [][NextOverlap]_vars

\* ------------------------------------------------------------------ progress
\* the steps of execution e: each awaited call returns or throws
ExecStep(e) ==
    \/ FetchSchemas(e)
    \/ FetchDataSources(e)
    \/ FetchSubscriptions(e)
    \/ FetchResolvers(e)
    \/ FetchFail(e)
    \/ ConnectOk(e)
    \/ ConnectFail(e)
    \/ ReconnectOk(e)
    \/ ReconnectFail(e)
    \/ DisconnectOk(e)
    \/ DisconnectFail(e)

\* the program over a store that is not edited while it runs
NextRecovery ==
    \/ \E e \in Execs : ExecStep(e)
    \/ Signal
    \/ Tick
    \/ TimerExpiredOverlap

\* the overlapping reloads where every call that onReceive awaits settles, time
\* passes and a due timer fires
SpecRecovery ==
    /\ Init
    /\ [][NextRecovery]_vars
    /\ \A e \in Reloads : WF_vars(ExecStep(e))
    /\ WF_vars(Tick)
    /\ WF_vars(TimerExpiredOverlap)

\* ----------------------------------------------------------------- shutdown
\* the lifecycle with the handle's cleanup
CleanupStep ==
    \/ Cleanup
    \/ CloseStoreOk
    \/ CloseStoreFail
    \/ StopListenerOk
    \/ StopListenerFail
    \/ CleanupDisconnectOk
    \/ CleanupDisconnectFail
    \/ CloseServerOk
    \/ CloseServerFail

NextShutdown == Step \/ TimerExpired \/ CleanupStep

SpecShutdown == Init /\ [][NextShutdown]_vars

\* ------------------------------------------------------------ startup alone
\* the startup function over every store, before any change is signalled
StoreEdit == StoreChangeIn(AllStores)

InitStartup == InitIn(AllStores)

NextStartup ==
    \/ FetchSchemas(Startup)
    \/ FetchDataSources(Startup)
    \/ FetchSubscriptions(Startup)
    \/ FetchResolvers(Startup)
    \/ FetchFail(Startup)
    \/ ConnectOk(Startup)
    \/ ConnectFail(Startup)
    \/ StoreEdit

SpecStartup == InitStartup /\ [][NextStartup]_vars

\* ================================================================== claims
BuildPcs == { "fetchSchemas", "fetchDataSources", "fetchSubscriptions", "fetchResolvers" }
InFlight == { e \in Reloads : pc[e] \notin { "idle", "done" } }

\* a row named 'default' exists
HasDefaultRow(rows) == \E i \in 1..Len(rows) : rows[i].name = "default"

\* the configured schema text is empty: there is no row at all, or the row named
\* 'default' holds an empty text
SchemaTextEmpty(rows) ==
    rows = <<>> \/ (HasDefaultRow(rows) /\ FindDefault(rows) = "")

\* execution e ends its buildSchema in this step, other than by a store error
BuildEnds(e) ==
    pc[e] \in BuildPcs /\ pc'[e] \notin BuildPcs /\ loc'[e].error # "Store"

\* line 158 of execution e returns in this step
SchemaRowsFetched(e) ==
    pc[e] = "fetchSchemas" /\ pc'[e] # "fetchSchemas" /\ loc'[e].error # "Store"

\* ---- C7
\* C7: when the initial buildSchema or the initial connectDataSources fails, the
\* startup promise is rejected and no http server, app, apollo server (bound
\* schema), request listener or schema listener exists.
StartupFailureIsFatal ==
    loc[Startup].error # "none" =>
        /\ pc[Startup] = "rejected"
        /\ result = "rejected"
        /\ ~httpServer.created
        /\ httpServer.listeners = {}
        /\ app = NoApp
        /\ apolloServer = NoApollo
        /\ subscriptionServers = {}
        /\ schemaListener = "none"

\* C7 witness: the startup was rejected by a connect failure at the second key
StartupConnectRejected ==
    /\ pc[Startup] = "rejected"
    /\ loc[Startup].error = "Connect"
    /\ connected = { << Startup, "A" >> }

\* ---- C8
\* C8: buildSchema fails with the 'no default schema' error exactly when rows
\* exist and none is named 'default' (and then right after the schema rows are
\* fetched, with nothing connected); with a row named 'default' it goes on with
\* that row's text.
DefaultNameEnforcement ==
    [][ \A e \in Execs :
          SchemaRowsFetched(e) =>
             /\ (loc'[e].error = "NoDefault") <=>
                    (store.schemas # <<>> /\ ~HasDefaultRow(store.schemas))
             /\ loc'[e].error = "NoDefault" => connected' = connected
             /\ HasDefaultRow(store.schemas) =>
                    /\ pc'[e] = "fetchDataSources"
                    /\ loc'[e].graphQLSchemaString = FindDefault(store.schemas)
      ]_vars

\* ---- C9
\* C9: when the schema text, the data source rows and the resolver rows are all
\* empty, rows in the schema table or not, buildSchema does not fail and
\* returns the fallback schema with no data sources and no resolvers.
FallbackWhenAllEmpty ==
    [][ /\ ( /\ pc[Startup] = "fetchSchemas"
             /\ BuildEnds(Startup)
             /\ SchemaTextEmpty(store.schemas)
             /\ store.dataSources = <<>>
             /\ store.resolvers = <<>> )
           => loc'[Startup].error = "none"
        /\ ( /\ pc[Startup] = "fetchResolvers"
             /\ BuildEnds(Startup)
             /\ IsEmptyString(loc[Startup].graphQLSchemaString)
             /\ loc[Startup].dataSourcesJson = <<>>
             /\ store.resolvers = <<>> )
           => /\ loc'[Startup].error = "none"
              /\ schema'.text = FallbackSchemaString
              /\ schema'.resolvers = <<>>
              /\ dataSources'.keys = <<>>
      ]_vars

\* ---- C10
\* what buildSchema read: the selected schema text, the data source rows, the
\* resolver rows, when its last query returns
AllReadEmpty(e) ==
    /\ IsEmptyString(loc[e].graphQLSchemaString)
    /\ loc[e].dataSourcesJson = <<>>
    /\ store.resolvers = <<>>
SomeReadEmpty(e) ==
    \/ IsEmptyString(loc[e].graphQLSchemaString)
    \/ loc[e].dataSourcesJson = <<>>
    \/ store.resolvers = <<>>
\* the startup's buildSchema returned the fallback / what it had read
ReturnedFallback ==
    /\ schema'.text = FallbackSchemaString
    /\ schema'.resolvers = <<>>
    /\ dataSources'.keys = <<>>
ReturnedConfigured ==
    /\ schema'.text = loc[Startup].graphQLSchemaString
    /\ schema'.resolvers = store.resolvers
    /\ dataSources'.keys = loc[Startup].dataSourcesJson
StartupBuildReturns ==
    pc[Startup] = "fetchResolvers" /\ BuildEnds(Startup) /\ loc'[Startup].error = "none"

ReloadEndsConnectFailed(e) ==
    pc[e] # "done" /\ pc'[e] = "done" /\ loc'[e].error = "Connect"

\* C1: when a hot reload in which a new data source failed to connect ends, the
\* bound schema and the data source set are the ones of before the reload, and
\* every instance that was connected before the reload is connected.
FailureIsolation ==
    [][ \A e \in Reloads :
          ReloadEndsConnectFailed(e) =>
             /\ schema' = loc[e].preSchema
             /\ apolloServer'.schema = loc[e].preSchema
             /\ dataSources' = loc[e].preDataSources
             /\ loc[e].preConnected \subseteq connected'
      ]_vars

\* ---- C2
\* C2: at most one execution of onReceive is between its start and its end.
SingleFlight == Cardinality(InFlight) <= 1

\* ---- C3
\* C3: whenever a request can be dispatched, the schema bound to the server, the
\* data source set and the connected data sources are of one configuration.
AtomicSwap ==
    result = "resolved" =>
        /\ apolloServer.schema.gen = dataSources.gen
        /\ \A d \in connected : d[1] = apolloServer.schema.gen

Invocation == \E e \in Reloads : pc[e] = "idle" /\ pc'[e] # "idle"

\* C5: onReceive is invoked only when Wait ms have passed since the last
\* signal, never while a timer is still running for a later signal, and once
\* per burst: when no timer is pending, exactly one invocation has followed
\* the last signal.
TrailingEdgeDebounce ==
    [][ /\ Invocation => (timerId /\ sinceCall = Wait /\ invoked = 0 /\ ~timerId')
        /\ invoked' <= 1
        /\ timerId' => (signalled' /\ invoked' = 0)
        /\ (signalled' /\ ~timerId') => invoked' = 1
        /\ (signalled' /\ sinceCall' = 0) => (timerId' /\ invoked' = 0)
      ]_vars

\* C5 witness: the burst is over and onReceive has just been invoked, once
InvokedOnceAfterBurst ==
    /\ signalled
    /\ ~timerId
    /\ invoked = 1
    /\ \E e \in Reloads : pc[e] = "fetchSchemas"

\* ---- C6
\* the state a request is served from
Live == << schema, app, apolloServer, subscriptionServers, httpServer, dataSources,
           connected >>

\* C6: no step of a hot reload's buildSchema, and in particular the step in
\* which it throws, changes the schema, the app, the apollo server, the
\* subscription server, the data source set or any connection; after the throw
\* the reload has ended.
BuildFailureFrame ==
    [][ \A e \in Reloads :
          /\ (pc[e] \in BuildPcs /\ pc'[e] \in BuildPcs /\ pc'[e] # pc[e]) => Live' = Live
          /\ (pc[e] \in BuildPcs /\ loc'[e].error \in { "NoDefault", "Parse", "Store" }) =>
                 /\ pc'[e] = "done"
                 /\ Live' = Live
          /\ (pc[e] = "done" /\ loc[e].error \in { "NoDefault", "Parse", "Store" }) =>
                 /\ pc'[e] = "done"
                 /\ loc'[e] = loc[e]
      ]_vars

\* C6 witness: a reload ended by a parser error and the startup's apollo
\* server, app and data sources are still the live ones
ReloadBuildFailed ==
    \E e \in Reloads :
        /\ pc[e] = "done"
        /\ loc[e].error = "Parse"
        /\ apolloServer.id = Startup
        /\ app.id = Startup
        /\ dataSources.gen = Startup
        /\ connected = Instances(dataSources)
        /\ connected # {}

\* ---- C11
\* the steps a shutdown has to invoke
ShutdownSteps ==
    { "store", "dataSources", "server" }
        \cup (IF schemaListener # "none" THEN { "listener" } ELSE {})

\* how many times cleanup has invoked a step
Invocations(step) ==
    Cardinality({ i \in 1..Len(cl.calls) : cl.calls[i] = step })

CleanupEnded == cl.pc \in { "resolved", "rejected" }

\* C11: when cleanup has ended, with or without a failing step, it has invoked
\* each shutdown step (close the store, stop the listener, disconnect the data
\* sources, close the HTTP server) exactly once
ShutdownResilience ==
    CleanupEnded => \A step \in ShutdownSteps : Invocations(step) = 1

\* ---- C12
\* the claimed order of the shutdown steps, the listener's when there is one
ClaimedOrder ==
    IF schemaListener # "none"
    THEN << "listener", "dataSources", "server", "store" >>
    ELSE << "dataSources", "server", "store" >>

\* C12: the steps cleanup has invoked are, at every moment, the first steps of
\* the order stop the listener, disconnect the data sources, close the server,
\* close the config store: the store is closed last
ShutdownOrder ==
    /\ Len(cl.calls) <= Len(ClaimedOrder)
    /\ cl.calls = SubSeq(ClaimedOrder, 1, Len(cl.calls))

\* ---- C13
\* the routes of the application that startup binds
StartupRoutes == { GraphqlEndpoint, "/healthz", "/metrics" }

\* C13: from the end of startup on, through every hot reload, the application
\* bound to the server serves the health endpoint, the metrics endpoint and
\* the GraphQL API at the configured endpoint path
ServedRoutes ==
    result = "resolved" =>
        /\ app.routes = StartupRoutes
        /\ apolloServer.path = GraphqlEndpoint

\* ---- C14
\* the awaits of connectDataSources: of the new data sources (and of startup's),
\* and of the previous ones after a failure
ConnectPcs == { "connecting", "reconnecting" }

\* execution e calls connectDataSources in this step: its loop starts at the
\* first key of a map that has one
ConnectLoopEntered(e) ==
    (pc'[e] \in ConnectPcs /\ pc'[e] # pc[e]) =>
        /\ loc'[e].i = 1
        /\ loc'[e].loop.keys # <<>>

\* a connect of execution e returns or throws in this step
ConnectReturns(e) ==
    pc[e] \in ConnectPcs /\ << pc'[e], loc'[e] >> # << pc[e], loc[e] >>

\* the loop of e goes on: the connect has succeeded, and the next key is next
ConnectLoopGoesOn(e) ==
    /\ connected' = connected \cup { LoopInstance(e) }
    /\ loc'[e].loop = loc[e].loop
    /\ loc'[e].i = loc[e].i + 1
    /\ loc'[e].i <= Len(loc[e].loop.keys)

\* the loop of e is over: after the last key, every connect having succeeded
ConnectLoopCompleted(e) ==
    /\ LastKey(e)
    /\ connected' = connected \cup { LoopInstance(e) }
    /\ loc'[e].error = loc[e].error

\* the loop of e is left with an error: nothing is connected in this step, and
\* the caller has the error (startup rejects, onReceive goes to its catch)
ConnectLoopRaised(e) ==
    /\ connected' = connected
    /\ IF pc[e] = "reconnecting"
       THEN pc'[e] = "done"
       ELSE /\ loc'[e].error = "Connect"
            /\ pc'[e] = IF e = Startup THEN "rejected"
                        ELSE IF dataSources.keys = <<>> THEN "done" ELSE "reconnecting"

\* C14: connectDataSources connects one data source at a time, in the order of
\* the keys; it goes to the next key only when a connect has succeeded, ends
\* without error only after the last key, and at a failing connect stops and
\* raises: no later key is connected
SequentialConnect ==
    [][ \A e \in Execs :
            /\ ConnectLoopEntered(e)
            /\ ConnectReturns(e) =>
                   IF pc'[e] = pc[e]
                   THEN ConnectLoopGoesOn(e)
                   ELSE ConnectLoopCompleted(e) \/ ConnectLoopRaised(e) ]_vars

\* a reload has connected both data sources of its configuration, in order
AllConnectedInOrder ==
    \E e \in Reloads :
        /\ pc[e] = "done"
        /\ loc[e].error = "none"
        /\ dataSources = [ gen |-> e, keys |-> << "A", "B" >> ]
        /\ Instances(dataSources) \subseteq connected

\* ---- C15
\* onReceive calls disconnectDataSources in this step: its loop starts at the
\* first key of a map that has one
ReloadDisconnectEntered(e) ==
    (pc'[e] = "disconnecting" /\ pc[e] # "disconnecting") =>
        /\ loc'[e].i = 1
        /\ loc'[e].loop.keys # <<>>

\* a disconnect called by onReceive returns or throws in this step: the loop
\* goes to the next key, or is over after the last one, no error raised
ReloadDisconnectReturns(e) ==
    (pc[e] = "disconnecting" /\ << pc'[e], loc'[e] >> # << pc[e], loc[e] >>) =>
        /\ connected \ { LoopInstance(e) } \subseteq connected'
        /\ connected' \subseteq connected
        /\ IF pc'[e] = "disconnecting"
           THEN /\ loc'[e].loop = loc[e].loop
                /\ loc'[e].i = loc[e].i + 1
                /\ loc'[e].i <= Len(loc[e].loop.keys)
           ELSE /\ LastKey(e)
                /\ loc'[e].error = "none"

\* the same for the disconnectDataSources that cleanup calls
CleanupDisconnectEntered ==
    (cl'.pc = "disconnecting" /\ cl.pc # "disconnecting") =>
        /\ cl'.i = 1
        /\ cl'.loop.keys # <<>>

CleanupDisconnectReturns ==
    (cl.pc = "disconnecting" /\ cl' # cl) =>
        /\ connected \ { Instance(cl.loop, cl.i) } \subseteq connected'
        /\ connected' \subseteq connected
        /\ IF cl'.pc = "disconnecting"
           THEN /\ cl'.loop = cl.loop
                /\ cl'.i = cl.i + 1
                /\ cl'.i <= Len(cl.loop.keys)
           ELSE /\ cl.i = Len(cl.loop.keys)
                /\ cl'.pc = "closeServer"

\* C15: disconnectDataSources calls disconnect on every data source of the
\* map, one key after the other, whether a disconnect fails or not, and
\* returns to its caller without an error after the last key
DisconnectEveryOne ==
    [][ /\ \A e \in Reloads : ReloadDisconnectEntered(e) /\ ReloadDisconnectReturns(e)
        /\ CleanupDisconnectEntered
        /\ CleanupDisconnectReturns ]_vars

\* the disconnect of the first data source has failed and the loop of a reload
\* is at the second one
DisconnectGoesOnAfterFailure ==
    \E e \in Reloads :
        /\ pc[e] = "disconnecting"
        /\ loc[e].i = 2
        /\ Instance(loc[e].loop, 1) \in connected

\* ---- C16
\* the connected data source instances of the configuration that execution e built
ConnectedOf(e) == { d \in connected : d[1] = e }

\* C16: when a hot reload has finished after a failing connect of its new data
\* sources, no instance of the configuration it built is left connected
PartialConnectCleanup ==
    \A e \in Reloads :
        (pc[e] = "done" /\ loc[e].error = "Connect") => ConnectedOf(e) = {}

\* ---- C17
\* a hot reload has finished after a failing build or a failing connect
SomeReloadFailed ==
    \E e \in Reloads : pc[e] = "done" /\ loc[e].error # "none"

\* every hot reload that has started finishes: onReceive returns
ReloadFinishes ==
    \A e \in Reloads : (pc[e] # "idle") ~> (pc[e] = "done")

\* after a failed reload, a signalled change whose timer is pending leads to
\* the next execution of onReceive
ReloadAfterFailure ==
    \A n \in Reloads :
        (SomeReloadFailed /\ timerId /\ NextExec = n) ~> (pc[n] # "idle")

\* C17: when every awaited call returns or throws, every hot reload that has
\* started finishes, onReceive returning normally; and after a reload that
\* failed, a later change signal leads to a new execution of onReceive, unless
\* change signals keep arriving for ever (each one restarts the wait)
RecoveryLiveness ==
    /\ ReloadFinishes
    /\ ([]<><<Signal>>_vars) \/ ReloadAfterFailure

\* a reload has failed and a later one has started
ReloadStartedAfterFailure ==
    \E e, n \in Reloads :
        /\ e < n
        /\ pc[e] = "done"
        /\ loc[e].error # "none"
        /\ pc[n] # "idle"

\* ---- C18
\* a teardown step of cleanup has been invoked
TeardownBegun == cl.calls # <<>>

\* C18: no teardown step of cleanup has been invoked while a hot reload that
\* was running when cleanup was called is still running
ShutdownWaitsForReload ==
    TeardownBegun => cl.inFlight \cap Running = {}

\* ---- C19
\* cleanup has completed: its promise is settled
CleanupCompleted == cl.pc = "resolved"

\* C19: once cleanup has completed, no execution of onReceive starts and no
\* data source is connected
NoReloadAfterShutdown ==
    [][ CleanupCompleted =>
            /\ \A e \in Reloads : pc[e] = "idle" => pc'[e] = "idle"
            /\ connected' \subseteq connected ]_vars

\* ---- C20
\* C20: from the end of startup until the server is closed by cleanup, whatever
\* the hot reloads in progress, the HTTP server created at startup exists and
\* exactly one application is its request listener, the current one
ListeningSocketPreserved ==
    (result = "resolved" /\ "server" \notin closed) =>
        /\ httpServer.created
        /\ Cardinality(httpServer.listeners) = 1
        /\ httpServer.listeners = { app.id }

\* two hot reloads are in progress and the second has bound its application
OverlappingReloadsBound ==
    /\ Cardinality(Running) = 2
    /\ app.id \in Running
    /\ \E e \in Running : e < app.id

====
